---- MODULE Spec2Model ----
(***************************************************************************)
(* Model of sentinelsat_utils/query.py: the retry wrapper loop_query, the  *)
(* three aggregators query_tiles_dates, query_dates and                    *)
(* query_rel_orbit_numbers, and the cleanup helper delete_empty.           *)
(*                                                                         *)
(* Python values are encoded as follows.                                   *)
(*   dict (query kwargs)  : a function from key strings to values          *)
(*   OrderedDict          : a sequence of <<key, value>> pairs, keys unique*)
(*   Optional int         : <<>> for None, <<n>> for the integer n         *)
(*   str                  : a sequence of one-character strings            *)
(*   datetime             : <<year, month, day, hour>>                     *)
(*   exception            : [type |-> name, n |-> number of the api.query  *)
(*                          call that raised it (0 when raised elsewhere)] *)
(***************************************************************************)
EXTENDS Integers, Sequences, FiniteSets, TLC

VARIABLES
    fn,                 \* the function of query.py that the caller invoked
    query_kwargs,       \* the caller's base keyword arguments
    loop_kwargs,        \* the caller's loop options (passed as **loop_kwargs)
    tiles_dates,        \* query_tiles_dates: sequence of <<tile, dates>> in mapping order
    dates,              \* query_dates: sequence of date strings
    rel_orbit_numbers,  \* query_rel_orbit_numbers: sequence of integers
    results,            \* delete_empty: sequence of paths, one per entry
    fs,                 \* the file system: path -> size class or "absent"
    pc,                 \* position of the called function
    ti, di,             \* loop positions (tile index, date/orbit/entry index)
    kw,                 \* the per-iteration parameters handed to loop_query
    products,           \* the aggregator's accumulator
    outcome,            \* what the caller of fn receives
    lq_pc,              \* position inside loop_query
    attempt,            \* iterations of "for _ in range(max_retries)" started
    err_reraise,        \* loop_query's err_reraise
    t,                  \* the trange counter of the wait loop
    lq_out,             \* what loop_query handed back to its caller
    calls,              \* api.query calls made by the current loop_query invocation
    recFails,           \* of which raised SentinelAPIError
    sleeps,             \* time.sleep(10) calls of the current loop_query invocation
    waits,              \* completed wait loops of the current loop_query invocation
    lastEvent,          \* the last thing the current loop_query invocation did
    lastResult,         \* the value api.query returned on its last successful call
    merged,             \* log of [pos, pp]: the results merged into products
    queried,            \* positions for which api.query has been called
    fs0,                \* the file system as it was when delete_empty was called
    removed,            \* log of [idx, path]: os.remove attempts
    warnings            \* number of logger.warn calls of delete_empty

vars == <<fn, query_kwargs, loop_kwargs, tiles_dates, dates, rel_orbit_numbers,
          results, fs, pc, ti, di, kw, products, outcome, lq_pc, attempt,
          err_reraise, t, lq_out, calls, recFails, sleeps, waits, lastEvent,
          lastResult, merged, queried, fs0, removed, warnings>>

lqVars == <<lq_pc, attempt, err_reraise, t, lq_out, calls, recFails, sleeps,
            waits, lastEvent, lastResult>>
inputVars == <<fn, loop_kwargs, tiles_dates, dates, rel_orbit_numbers, results, fs0>>
delVars == <<fs, removed, warnings>>

----------------------------------------------------------------------------
(* Bounds of the explored inputs *)

MaxRetriesBound == 2
MaxTimeoutBound == 1
MaxItems == 2
MaxEntries == 2

(* Program constants *)

DefaultMaxRetries == 5
DefaultTimeoutMinutes == 5
SleepsPerMinute == 6

----------------------------------------------------------------------------
(* Optional values and exceptions *)

None == <<>>
Some(n) == <<n>>

NoError == [type |-> "None", n |-> 0]
Err(type, n) == [type |-> type, n |-> n]

Pending == [kind |-> "pending", value |-> <<>>, err |-> NoError]
Returned(v) == [kind |-> "return", value |-> v, err |-> NoError]
ReturnedNone == [kind |-> "returnNone", value |-> <<>>, err |-> NoError]
Raised(e) == [kind |-> "raise", value |-> <<>>, err |-> e]

----------------------------------------------------------------------------
(* loop_query's keyword arguments *)

max_retries ==
    IF "max_retries" \in DOMAIN loop_kwargs
    THEN loop_kwargs["max_retries"][1] ELSE DefaultMaxRetries

timeout_minutes ==
    IF "timeout_minutes" \in DOMAIN loop_kwargs
    THEN loop_kwargs["timeout_minutes"] ELSE Some(DefaultTimeoutMinutes)

\* "if not timeout_minutes": None and 0 are falsy
Falsy(x) == x = None \/ x[1] = 0

\* trange(timeout_minutes * 6)
WaitSleeps == IF Falsy(timeout_minutes) THEN 0 ELSE timeout_minutes[1] * SleepsPerMinute

----------------------------------------------------------------------------
(* dict and OrderedDict *)

\* kw[k] = v
SetItem(d, k, v) == [x \in (DOMAIN d) \cup {k} |-> IF x = k THEN v ELSE d[x]]

\* query_kwargs.copy(): a new dict holding the same items
Copy(d) == [x \in DOMAIN d |-> d[x]]

\* The caller's dict after the stores into kw.  kw is a copy (a different
\* object), so the stores of the iteration do not reach query_kwargs.
CallerKwargsAliased(base, k) == k
CallerKwargsAfter(base, k) == base

Keys(od) == {od[j][1] : j \in 1..Len(od)}

\* OrderedDict.__setitem__: overwrite in place, or append a new key
PutMoveToEnd(od, k, v) ==
    SelectSeq(od, LAMBDA p : p[1] # k) \o << <<k, v>> >>
Put(od, k, v) ==
    IF k \in Keys(od)
    THEN [j \in 1..Len(od) |-> IF od[j][1] = k THEN <<k, v>> ELSE od[j]]
    ELSE Append(od, <<k, v>>)

\* products.update(pp): the items of pp stored one by one, in pp's order
RECURSIVE Update(_, _)
Update(od, pp) ==
    IF pp = <<>> THEN od
    ELSE Update(Put(od, Head(pp)[1], Head(pp)[2]), Tail(pp))

----------------------------------------------------------------------------
(* Dates *)

Digits == <<"0", "1", "2", "3", "4", "5", "6", "7", "8", "9">>
IsDigit(c) == \E j \in 1..10 : Digits[j] = c
DigitVal(c) == (CHOOSE j \in 1..10 : Digits[j] = c) - 1

IsLeap(y) == (y % 4 = 0 /\ y % 100 # 0) \/ y % 400 = 0
DaysInMonth(y, m) ==
    IF m = 2 THEN (IF IsLeap(y) THEN 29 ELSE 28)
    ELSE IF m \in {4, 6, 9, 11} THEN 30 ELSE 31

\* The fields dateutil.parser.parse reads from "YYYYMMDD" or "YYYYMMDDTHH"
FieldsOk(s) ==
    /\ Len(s) \in {8, 11}
    /\ \A j \in 1..Len(s) : IF j = 9 THEN s[j] = "T" ELSE IsDigit(s[j])
YearOf(s) == 1000 * DigitVal(s[1]) + 100 * DigitVal(s[2]) + 10 * DigitVal(s[3]) + DigitVal(s[4])
MonthOf(s) == 10 * DigitVal(s[5]) + DigitVal(s[6])
DayOf(s) == 10 * DigitVal(s[7]) + DigitVal(s[8])
HourOf(s) == IF Len(s) = 11 THEN 10 * DigitVal(s[10]) + DigitVal(s[11]) ELSE 0

\* dateutil.parser.parse(date) succeeds
ParseOk(s) ==
    /\ FieldsOk(s)
    /\ YearOf(s) >= 1
    /\ MonthOf(s) \in 1..12
    /\ DayOf(s) \in 1..DaysInMonth(YearOf(s), MonthOf(s))
    /\ HourOf(s) \in 0..23

\* dateutil.parser.parse(date)
Parse(s) == <<YearOf(s), MonthOf(s), DayOf(s), HourOf(s)>>

\* start_date + datetime.timedelta(days=1)
AddDay(d) ==
    IF d[3] < DaysInMonth(d[1], d[2]) THEN <<d[1], d[2], d[3] + 1, d[4]>>
    ELSE IF d[2] < 12 THEN <<d[1], d[2] + 1, 1, d[4]>>
    ELSE <<d[1] + 1, 1, 1, d[4]>>

\* datetime a < datetime b
Before(a, b) ==
    \E j \in 1..4 : a[j] < b[j] /\ \A i \in 1..(j - 1) : a[i] = b[i]

\* datetime.datetime(2016, 11, 1) and datetime.datetime(2017, 3, 31)
SingleTileFormatStart == <<2016, 11, 1, 0>>
TileIdSearchStart == <<2017, 3, 31, 0>>

\* '*_T{}_*'.format(tile)
FilenameGlob(tile) == <<"*_T", tile, "_*">>

\* The tile filter of query_tiles_dates: which branch the start date takes
TileFilterInclusive(start) ==
    IF ~Before(SingleTileFormatStart, start) THEN "raise"
    ELSE IF ~Before(TileIdSearchStart, start) THEN "filename"
    ELSE "tileid"
TileFilter(start) ==
    IF Before(start, SingleTileFormatStart) THEN "raise"
    ELSE IF Before(start, TileIdSearchStart) THEN "filename"
    ELSE "tileid"

\* str(ron) for a non-negative integer
RECURSIVE Str(_)
Str(n) == IF n < 10 THEN <<Digits[n + 1]>> ELSE Append(Str(n \div 10), Digits[(n % 10) + 1])

----------------------------------------------------------------------------
(* Inputs *)

SeqsUpTo(S, n) == UNION {[1..k -> S] : k \in 0..n}

Tiles == {"31TCJ", "32UNG"}

D_20161031T23 == <<"2", "0", "1", "6", "1", "0", "3", "1", "T", "2", "3">>
D_20161101 == <<"2", "0", "1", "6", "1", "1", "0", "1">>
D_20170330T23 == <<"2", "0", "1", "7", "0", "3", "3", "0", "T", "2", "3">>
D_20170331 == <<"2", "0", "1", "7", "0", "3", "3", "1">>
D_20171301 == <<"2", "0", "1", "7", "1", "3", "0", "1">>
DateStrs == {D_20161031T23, D_20161101, D_20170330T23, D_20170331, D_20171301}

Orbits == {8, 51, 108}

RECURSIVE TotalDates(_)
TotalDates(td) == IF td = <<>> THEN 0 ELSE Len(Head(td)[2]) + TotalDates(Tail(td))

\* dicts tile -> list of date strings, in mapping order (keys are distinct)
TilesDatesInputs ==
    {td \in SeqsUpTo(Tiles \X SeqsUpTo(DateStrs, MaxItems), Cardinality(Tiles)) :
        /\ \A a, b \in 1..Len(td) : a # b => td[a][1] # td[b][1]
        /\ TotalDates(td) <= MaxItems}

BareKwargs == [platformname |-> "Sentinel-2"]
FullKwargs ==
    [platformname |-> "Sentinel-2",
     date |-> << <<2015, 7, 1, 0>>, <<2015, 7, 2, 0>> >>,
     filename |-> <<"S2A_*">>,
     tileid |-> "30STG",
     relativeorbitnumber |-> <<"9">>]
QueryKwargsInputs == {BareKwargs, FullKwargs}

\* every way of passing max_retries and/or timeout_minutes, or neither
LoopKwargsInputs ==
    LET mr == {Some(n) : n \in 0..MaxRetriesBound}
        tm == {None} \cup {Some(n) : n \in 0..MaxTimeoutBound}
    IN  {<<>>}
        \cup {[x \in {"max_retries"} |-> m] : m \in mr}
        \cup {[x \in {"timeout_minutes"} |-> u] : u \in tm}
        \cup {[max_retries |-> m, timeout_minutes |-> u] : m \in mr, u \in tm}

\* the loop options the aggregators are explored with
AggLoopKwargsInputs ==
    {[max_retries |-> Some(2), timeout_minutes |-> Some(1)],
     [x \in {"timeout_minutes"} |-> None],
     [x \in {"max_retries"} |-> Some(0)]}

\* what a successful api.query may return
R_A == << <<"A", "x">> >>
R_AB == << <<"A", "y">>, <<"B", "z">> >>
QueryResults == {R_A, R_AB}

Paths == {"a.zip", "b.zip"}
SizeClasses == {"absent", "empty", "nonempty"}

----------------------------------------------------------------------------
(* The caller's side of a loop_query call *)

Aggregators == {"query_tiles_dates", "query_dates", "query_rel_orbit_numbers"}

\* the call "loop_query(api, query_kwargs=kw, **loop_kwargs)" starts:
\* err_reraise = None and the for loop is at its header
EnterLoopQuery ==
    /\ lq_pc' = "for"
    /\ attempt' = 0
    /\ err_reraise' = NoError
    /\ t' = 0
    /\ lq_out' = Pending
    /\ calls' = 0
    /\ recFails' = 0
    /\ sleeps' = 0
    /\ waits' = 0
    /\ lastEvent' = "enter"
    /\ lastResult' = <<>>

\* An exception leaves the called function: nothing is returned
RaiseSwallowed(e) ==
    /\ pc' = "loop"
    /\ outcome' = outcome
RaiseToCaller(e) ==
    /\ pc' = "raised"
    /\ outcome' = Raised(e)

\* loop_query returned pp to its caller.  In an aggregator the rest of the
\* loop body runs: len(pp) / products.update(pp), then the next iteration.
AfterReturn(out) ==
    IF fn = "loop_query"
    THEN /\ pc' = "returned"
         /\ outcome' = out
         /\ UNCHANGED <<ti, di, products, merged>>
    ELSE IF out.kind = "returnNone"
    THEN \* len(None) (line 78, 106) or products.update(None) (line 132)
         /\ RaiseToCaller(Err("TypeError", 0))
         /\ UNCHANGED <<ti, di, products, merged>>
    ELSE /\ products' = Update(products, out.value)
         /\ merged' = Append(merged, [pos |-> <<ti, di>>, pp |-> out.value])
         /\ pc' = "loop"
         /\ di' = di + 1
         /\ UNCHANGED <<ti, outcome>>

\* loop_query raised e: it propagates through the caller
AfterRaise(e) ==
    /\ RaiseToCaller(e)
    /\ UNCHANGED <<ti, di, products, merged>>

----------------------------------------------------------------------------
(* loop_query *)

\* "for _ in range(max_retries)": the range still yields a value after a iterations
RangeHasNextInclusive(a, n) == a <= n
RangeHasNext(a, n) == a < n

InAttempt == pc = "query" /\ lq_pc = "for" /\ RangeHasNext(attempt, max_retries)

\* what loop_query does with a value returned by api.query: "return api.query(...)"
ResultDropped(r) == <<>>
ResultOf(r) == r

\* line 31: api.query returns r, loop_query returns it
LQ_Success ==
    /\ InAttempt
    /\ \E r \in QueryResults :
        /\ lastResult' = r
        /\ lq_out' = Returned(ResultOf(r))
        /\ AfterReturn(Returned(ResultOf(r)))
    /\ attempt' = attempt + 1
    /\ calls' = calls + 1
    /\ queried' = queried \cup {<<ti, di>>}
    /\ lq_pc' = "returned"
    /\ lastEvent' = "ok"
    /\ UNCHANGED <<err_reraise, t, recFails, sleeps, waits>>
    /\ UNCHANGED <<inputVars, delVars, query_kwargs, kw>>

\* the exception types api.query raises
RaisedTypes == {"SentinelAPIError", "OtherError"}

\* line 32: "except SentinelAPIError as err"
CatchesAll(type) == TRUE
Catches(type) == type = "SentinelAPIError"

\* line 34: "if not timeout_minutes: break"
BreaksNever(tm) == FALSE
Breaks(tm) == Falsy(tm)

\* lines 31-41: api.query raises.  A SentinelAPIError is handled (recorded,
\* then break or wait); anything else leaves loop_query at once.
LQ_Raise ==
    /\ InAttempt
    /\ \E type \in RaisedTypes :
        LET err == Err(type, calls + 1) IN
        /\ recFails' = IF type = "SentinelAPIError" THEN recFails + 1 ELSE recFails
        /\ lastEvent' = IF type = "SentinelAPIError" THEN "rec" ELSE "other"
        /\ IF ~Catches(type)
           THEN /\ lq_pc' = "raised"
                /\ lq_out' = Raised(err)
                /\ AfterRaise(err)
                /\ UNCHANGED <<err_reraise, t>>
           ELSE /\ err_reraise' = err
                /\ IF Breaks(timeout_minutes)
                   THEN \* break, then lines 42-43
                        /\ lq_pc' = "raised"
                        /\ lq_out' = Raised(err)
                        /\ AfterRaise(err)
                        /\ UNCHANGED t
                   ELSE \* the wait loop of lines 39-40 starts
                        /\ lq_pc' = "sleep"
                        /\ t' = 0
                        /\ UNCHANGED <<lq_out, pc, ti, di, products, merged, outcome>>
    /\ attempt' = attempt + 1
    /\ calls' = calls + 1
    /\ queried' = queried \cup {<<ti, di>>}
    /\ UNCHANGED <<sleeps, waits, lastResult>>
    /\ UNCHANGED <<inputVars, delVars, query_kwargs, kw>>

\* lines 39-41: one time.sleep(10); after the last one, "continue"
LQ_Sleep ==
    /\ pc = "query"
    /\ lq_pc = "sleep"
    /\ sleeps' = sleeps + 1
    /\ IF t + 1 < WaitSleeps
       THEN /\ t' = t + 1
            /\ lastEvent' = "sleep"
            /\ UNCHANGED <<lq_pc, waits>>
       ELSE /\ t' = 0
            /\ lastEvent' = "wait"
            /\ waits' = waits + 1
            /\ lq_pc' = "for"
    /\ UNCHANGED <<attempt, err_reraise, lq_out, calls, recFails, lastResult>>
    /\ UNCHANGED <<inputVars, delVars, query_kwargs, kw, pc, ti, di, products,
                   merged, queried, outcome>>

\* lines 42-43: range(max_retries) is used up
LQ_Exhausted ==
    /\ pc = "query"
    /\ lq_pc = "for"
    /\ ~RangeHasNext(attempt, max_retries)
    /\ IF err_reraise # NoError
       THEN /\ lq_pc' = "raised"
            /\ lq_out' = Raised(err_reraise)
            /\ AfterRaise(err_reraise)
       ELSE /\ lq_pc' = "returned"
            /\ lq_out' = ReturnedNone
            /\ AfterReturn(ReturnedNone)
    /\ UNCHANGED <<attempt, err_reraise, t, calls, recFails, sleeps, waits,
                   lastEvent, lastResult>>
    /\ UNCHANGED <<inputVars, delVars, query_kwargs, kw, queried>>

----------------------------------------------------------------------------
(* The aggregators *)

NoPos == <<0, 0>>

\* "for tile in tiles_dates: for date in tiles_dates[tile]": the first
\* position at or after (a, b) that holds a date, NoPos when there is none
RECURSIVE NextPos(_, _, _)
NextPos(td, a, b) ==
    IF a > Len(td) THEN NoPos
    ELSE IF b > Len(td[a][2]) THEN NextPos(td, a + 1, 1)
    ELSE <<a, b>>

\* the next position of the loop of the called aggregator
NextItem ==
    CASE fn = "query_tiles_dates" -> NextPos(tiles_dates, ti, di)
      [] fn = "query_dates" -> IF di <= Len(dates) THEN <<1, di>> ELSE NoPos
      [] fn = "query_rel_orbit_numbers" ->
            IF di <= Len(rel_orbit_numbers) THEN <<1, di>> ELSE NoPos
      [] OTHER -> NoPos

\* lines 67-69: kw['date'] = (start_date, end_date)
WithDate(d, start) == SetItem(d, "date", <<start, AddDay(start)>>)

\* lines 70-76 on a start date that is supported
WithTileFilter(d, tile, start) ==
    IF TileFilter(start) = "filename"
    THEN SetItem(d, "filename", FilenameGlob(tile))
    ELSE SetItem(d, "tileid", tile)

\* lines 63-77: one iteration of query_tiles_dates up to the loop_query call
TD_Iter ==
    /\ fn = "query_tiles_dates"
    /\ pc = "loop"
    /\ NextItem # NoPos
    /\ LET pos == NextItem
           tile == tiles_dates[pos[1]][1]
           date == tiles_dates[pos[1]][2][pos[2]]
           kw0 == Copy(query_kwargs)
       IN  /\ ti' = pos[1]
           /\ di' = pos[2]
           /\ IF ~ParseOk(date)
              THEN /\ kw' = kw0
                   /\ RaiseToCaller(Err("ParserError", 0))
                   /\ UNCHANGED lqVars
              ELSE IF TileFilter(Parse(date)) = "raise"
              THEN /\ kw' = WithDate(kw0, Parse(date))
                   /\ RaiseToCaller(Err("ValueError", 0))
                   /\ UNCHANGED lqVars
              ELSE /\ kw' = WithTileFilter(WithDate(kw0, Parse(date)), tile, Parse(date))
                   /\ pc' = "query"
                   /\ EnterLoopQuery
                   /\ UNCHANGED outcome
    /\ query_kwargs' = CallerKwargsAfter(query_kwargs, kw')
    /\ UNCHANGED <<inputVars, delVars, products, merged, queried>>

\* lines 100-105: one iteration of query_dates up to the loop_query call
D_Iter ==
    /\ fn = "query_dates"
    /\ pc = "loop"
    /\ NextItem # NoPos
    /\ LET date == dates[di]
           kw0 == Copy(query_kwargs)
       IN  IF ~ParseOk(date)
           THEN /\ kw' = kw0
                /\ RaiseToCaller(Err("ParserError", 0))
                /\ UNCHANGED lqVars
           ELSE /\ kw' = WithDate(kw0, Parse(date))
                /\ pc' = "query"
                /\ EnterLoopQuery
                /\ UNCHANGED outcome
    /\ query_kwargs' = CallerKwargsAfter(query_kwargs, kw')
    /\ UNCHANGED <<inputVars, delVars, ti, di, products, merged, queried>>

\* lines 128-131: one iteration of query_rel_orbit_numbers up to the call
RON_Iter ==
    /\ fn = "query_rel_orbit_numbers"
    /\ pc = "loop"
    /\ NextItem # NoPos
    /\ kw' = SetItem(Copy(query_kwargs), "relativeorbitnumber", Str(rel_orbit_numbers[di]))
    /\ pc' = "query"
    /\ EnterLoopQuery
    /\ query_kwargs' = CallerKwargsAfter(query_kwargs, kw')
    /\ UNCHANGED <<inputVars, delVars, ti, di, products, merged, queried, outcome>>

\* lines 80, 108, 133: the loop is over, "return products"
AggReturn ==
    /\ fn \in Aggregators
    /\ pc = "loop"
    /\ NextItem = NoPos
    /\ pc' = "returned"
    /\ outcome' = Returned(products)
    /\ UNCHANGED <<inputVars, delVars, lqVars, query_kwargs, kw, ti, di, products,
                   merged, queried>>

----------------------------------------------------------------------------
(* delete_empty *)

\* line 140: os.path.getsize(zipfile) == 0
IsEmptyAlways(size) == TRUE
IsEmpty(size) == size = "empty"

InEntry == fn = "delete_empty" /\ pc = "loop" /\ di <= Len(results)

DE_Common ==
    UNCHANGED <<inputVars, lqVars, query_kwargs, kw, ti, products, merged, queried>>

\* line 140: os.path.getsize raises OSError (no such file); nothing catches it
DE_StatFails ==
    /\ InEntry
    /\ fs[results[di]] = "absent"
    /\ RaiseToCaller(Err("OSError", 0))
    /\ UNCHANGED <<di, delVars>>
    /\ DE_Common

\* line 140: the file is not empty, nothing is done
DE_Keep ==
    /\ InEntry
    /\ fs[results[di]] # "absent"
    /\ ~IsEmpty(fs[results[di]])
    /\ di' = di + 1
    /\ UNCHANGED <<pc, outcome, delVars>>
    /\ DE_Common

\* lines 141-142: os.remove succeeds
DE_Remove ==
    /\ InEntry
    /\ fs[results[di]] # "absent"
    /\ IsEmpty(fs[results[di]])
    /\ fs' = [fs EXCEPT ![results[di]] = "absent"]
    /\ removed' = Append(removed, [idx |-> di, path |-> results[di]])
    /\ di' = di + 1
    /\ UNCHANGED <<pc, outcome, warnings>>
    /\ DE_Common

\* lines 141-146: os.remove raises OSError, which is caught and logged
DE_RemoveFails ==
    /\ InEntry
    /\ fs[results[di]] # "absent"
    /\ IsEmpty(fs[results[di]])
    /\ removed' = Append(removed, [idx |-> di, path |-> results[di]])
    /\ warnings' = warnings + 1
    /\ di' = di + 1
    /\ UNCHANGED <<pc, outcome, fs>>
    /\ DE_Common

\* the loop of line 138 is over: delete_empty returns None
DE_Return ==
    /\ fn = "delete_empty"
    /\ pc = "loop"
    /\ di > Len(results)
    /\ pc' = "returned"
    /\ outcome' = ReturnedNone
    /\ UNCHANGED <<di, delVars>>
    /\ DE_Common

----------------------------------------------------------------------------
(* The calls *)

Idle ==
    /\ lq_pc = "idle" /\ attempt = 0 /\ err_reraise = NoError /\ t = 0
    /\ lq_out = Pending /\ calls = 0 /\ recFails = 0 /\ sleeps = 0 /\ waits = 0
    /\ lastEvent = "none" /\ lastResult = <<>>

NoDelete ==
    /\ results = <<>>
    /\ fs = [p \in Paths |-> "absent"]
    /\ fs0 = fs
    /\ removed = <<>>
    /\ warnings = 0

Fresh ==
    /\ products = <<>> /\ merged = <<>> /\ queried = {} /\ outcome = Pending

\* loop_query(api, query_kwargs, **loop_kwargs) called directly
InitLoopQuery ==
    /\ fn = "loop_query"
    /\ query_kwargs \in QueryKwargsInputs
    /\ loop_kwargs \in LoopKwargsInputs
    /\ kw = query_kwargs
    /\ tiles_dates = <<>> /\ dates = <<>> /\ rel_orbit_numbers = <<>>
    /\ pc = "query" /\ ti = 0 /\ di = 0
    /\ lq_pc = "for" /\ attempt = 0 /\ err_reraise = NoError /\ t = 0
    /\ lq_out = Pending /\ calls = 0 /\ recFails = 0 /\ sleeps = 0 /\ waits = 0
    /\ lastEvent = "enter" /\ lastResult = <<>>
    /\ Fresh /\ NoDelete

InitAggregator ==
    /\ fn \in Aggregators
    /\ query_kwargs \in QueryKwargsInputs
    /\ loop_kwargs \in AggLoopKwargsInputs
    /\ kw = <<>>
    /\ tiles_dates \in (IF fn = "query_tiles_dates" THEN TilesDatesInputs ELSE {<<>>})
    /\ dates \in (IF fn = "query_dates" THEN SeqsUpTo(DateStrs, MaxItems) ELSE {<<>>})
    /\ rel_orbit_numbers \in
          (IF fn = "query_rel_orbit_numbers" THEN SeqsUpTo(Orbits, MaxItems) ELSE {<<>>})
    /\ pc = "loop" /\ ti = 1 /\ di = 1
    /\ Idle /\ Fresh /\ NoDelete

InitDeleteEmpty ==
    /\ fn = "delete_empty"
    /\ query_kwargs = <<>> /\ loop_kwargs = <<>> /\ kw = <<>>
    /\ tiles_dates = <<>> /\ dates = <<>> /\ rel_orbit_numbers = <<>>
    /\ results \in SeqsUpTo(Paths, MaxEntries)
    /\ fs \in [Paths -> SizeClasses]
    /\ fs0 = fs
    /\ removed = <<>>
    /\ warnings = 0
    /\ pc = "loop" /\ ti = 1 /\ di = 1
    /\ Idle /\ Fresh

Init == InitLoopQuery \/ InitAggregator \/ InitDeleteEmpty

Next ==
    \/ LQ_Success
    \/ LQ_Raise
    \/ LQ_Sleep
    \/ LQ_Exhausted
    \/ TD_Iter
    \/ D_Iter
    \/ RON_Iter
    \/ AggReturn
    \/ DE_StatFails
    \/ DE_Keep
    \/ DE_Remove
    \/ DE_RemoveFails
    \/ DE_Return

Spec == Init /\ [][Next]_vars

----------------------------------------------------------------------------
(* Properties of loop_query *)

LQFinished == lq_pc \in {"returned", "raised"}
Truthy == ~Falsy(timeout_minutes)
\* every api.query call of the current loop_query invocation raised SentinelAPIError
AllRecoverable == recFails = calls
LastRecoverable == Raised(Err("SentinelAPIError", calls))

\* C1 as stated: for every max_retries N and a truthy timeout_minutes, when
\* every api.query call raises SentinelAPIError, loop_query makes exactly N
\* calls and then raises the error of the last one.
C1_EveryN ==
    (Truthy /\ AllRecoverable) =>
        /\ calls <= max_retries
        /\ LQFinished => (calls = max_retries /\ lq_out = LastRecoverable)

\* C1 amended: the same for every N >= 1; with N = 0 no call is made and
\* loop_query returns None without raising.
C1_PositiveN ==
    (Truthy /\ AllRecoverable) =>
        /\ calls <= max_retries
        /\ (LQFinished /\ max_retries >= 1) =>
              (calls = max_retries /\ lq_out = LastRecoverable)
        /\ (LQFinished /\ max_retries = 0) => (calls = 0 /\ lq_out = ReturnedNone)

C1_Witness ==
    /\ Truthy /\ AllRecoverable /\ lq_pc = "raised"
    /\ max_retries >= 2 /\ calls = max_retries
    /\ sleeps > 0

\* C2 as stated: with timeout_minutes 0 or None loop_query calls api.query
\* exactly once whatever max_retries is, and a SentinelAPIError of that call
\* is re-raised without any sleep.
C2_EveryN ==
    (Falsy(timeout_minutes) /\ LQFinished) =>
        /\ calls = 1
        /\ sleeps = 0
        /\ recFails = 1 => lq_out = Raised(Err("SentinelAPIError", 1))

\* C2 amended: the same whenever max_retries >= 1; with max_retries = 0 no
\* call is made and loop_query returns None.
C2_PositiveN ==
    /\ Falsy(timeout_minutes) => (calls <= 1 /\ sleeps = 0 /\ lq_pc # "sleep")
    /\ (Falsy(timeout_minutes) /\ LQFinished /\ max_retries >= 1) =>
        /\ calls = 1
        /\ recFails = 1 => lq_out = Raised(Err("SentinelAPIError", 1))
    /\ (Falsy(timeout_minutes) /\ LQFinished /\ max_retries = 0) =>
        (calls = 0 /\ lq_out = ReturnedNone)

C2_Witness ==
    /\ Falsy(timeout_minutes) /\ lq_pc = "raised" /\ recFails = 1
    /\ max_retries >= 2

\* C3: once an api.query call succeeds loop_query returns that call's result
\* and raises nothing; the successful call is the last call and nothing is
\* slept after it, also after earlier SentinelAPIError failures; a success
\* on the first attempt involves no sleep.
C3_ReturnsAtOnce ==
    /\ (lq_pc = "returned" /\ calls >= 1) =>
        /\ lq_out = Returned(lastResult)
        /\ lastResult \in QueryResults
        /\ lastEvent = "ok"
        /\ calls = recFails + 1
        /\ waits = recFails
        /\ sleeps = recFails * WaitSleeps
        /\ calls = 1 => sleeps = 0
        /\ fn = "loop_query" => outcome = Returned(lastResult)
    /\ lastEvent = "ok" => lq_pc = "returned"

C3_Witness ==
    /\ lq_pc = "returned" /\ lq_out.kind = "return"
    /\ recFails >= 1 /\ lq_out.value = R_AB

\* C4: an api.query error that is not SentinelAPIError leaves loop_query at
\* once: it is the error of the last call, that call follows only
\* recoverable failures, no sleep and no attempt comes after it.
C4_OtherErrorPropagates ==
    /\ lastEvent = "other" =>
        /\ lq_pc = "raised"
        /\ lq_out = Raised(Err("OtherError", calls))
        /\ outcome = lq_out
        /\ pc = "raised"
        /\ calls = recFails + 1
        /\ sleeps = recFails * WaitSleeps
    /\ (lq_pc = "raised" /\ lq_out.err.type = "OtherError") => lastEvent = "other"

C4_Witness ==
    /\ lq_pc = "raised" /\ lq_out.err.type = "OtherError"
    /\ recFails >= 1 /\ calls < max_retries

\* C10 as stated: with a truthy timeout_minutes every wait is
\* timeout_minutes * 6 sleeps of 10 seconds and is followed by another
\* api.query call, so loop_query never ends on a wait.
C10_WaitOnlyBeforeNextAttempt ==
    Truthy =>
        /\ sleeps = waits * WaitSleeps + t
        /\ LQFinished => lastEvent # "wait"

----------------------------------------------------------------------------
(* Properties of the aggregators *)

\* the tile and the date string of the iteration at (ti, di)
CurTile == tiles_dates[ti][1]
CurDate == IF fn = "query_tiles_dates" THEN tiles_dates[ti][2][di] ELSE dates[di]
\* an iteration of an aggregator has started and its item is at (ti, di)
InIteration == fn \in Aggregators /\ pc \in {"query", "raised"}

\* a datetime as the number yyyymmddhh
Stamp(d) == ((d[1] * 100 + d[2]) * 100 + d[3]) * 100 + d[4]

\* key k of kw is as the base has it
Inherited(k) ==
    IF k \in DOMAIN query_kwargs
    THEN k \in DOMAIN kw /\ kw[k] = query_kwargs[k]
    ELSE k \notin DOMAIN kw

\* C5: in query_tiles_dates a start date before 2016-11-01 raises the
\* unsupported-query error without any api.query call for the pair; from
\* 2016-11-01 up to but excluding 2017-03-31 the call carries the filename
\* filter '*_T<tile>_*' and no tile-id of its own; from 2017-03-31 on it
\* carries the tile-id and no filename filter of its own.
C5_TileFilterPolicy ==
    (fn = "query_tiles_dates" /\ InIteration /\ ParseOk(CurDate)) =>
        LET stamp == Stamp(Parse(CurDate)) IN
        /\ stamp < 2016110100 =>
              /\ pc = "raised"
              /\ outcome = Raised(Err("ValueError", 0))
              /\ <<ti, di>> \notin queried
        /\ (stamp >= 2016110100 /\ stamp < 2017033100) =>
              /\ outcome.err.type # "ValueError"
              /\ kw["filename"] = <<"*_T", CurTile, "_*">>
              /\ Inherited("tileid")
        /\ stamp >= 2017033100 =>
              /\ outcome.err.type # "ValueError"
              /\ kw["tileid"] = CurTile
              /\ Inherited("filename")

C5_Witness ==
    /\ fn = "query_tiles_dates" /\ pc = "query" /\ calls >= 1
    /\ query_kwargs = BareKwargs
    /\ CurDate = D_20161101
    /\ kw["filename"] = <<"*_T", "31TCJ", "_*">>

\* the items of the merged per-call results, one after the other
RECURSIVE Cat(_)
Cat(log) == IF log = <<>> THEN <<>> ELSE Head(log).pp \o Cat(Tail(log))
FirstAt(c, k) == CHOOSE j \in 1..Len(c) : c[j][1] = k /\ \A i \in 1..(j - 1) : c[i][1] # k
LastAt(c, k) == CHOOSE j \in 1..Len(c) : c[j][1] = k /\ \A i \in (j + 1)..Len(c) : c[i][1] # k
LexLess(p, q) == p[1] < q[1] \/ (p[1] = q[1] /\ p[2] < q[2])

\* the positions of the input of the called aggregator
ItemPositions ==
    CASE fn = "query_tiles_dates" ->
            {p \in (1..Len(tiles_dates)) \X (1..MaxItems) :
                p[2] <= Len(tiles_dates[p[1]][2])}
      [] fn = "query_dates" -> {<<1, b>> : b \in 1..Len(dates)}
      [] OTHER -> {<<1, b>> : b \in 1..Len(rel_orbit_numbers)}

\* C6: what an aggregator accumulates and returns is the per-call results
\* merged in iteration order: every key once, at the place of its first
\* appearance, holding the value of its last appearance.
C6_MergedInOrder ==
    fn \in Aggregators =>
        LET c == Cat(merged) IN
        /\ \A a, b \in 1..Len(merged) : a < b => LexLess(merged[a].pos, merged[b].pos)
        /\ \A a \in 1..Len(merged) : merged[a].pos \in ItemPositions
        /\ Keys(products) = {c[j][1] : j \in 1..Len(c)}
        /\ \A a, b \in 1..Len(products) :
              /\ a # b => products[a][1] # products[b][1]
              /\ a < b => FirstAt(c, products[a][1]) < FirstAt(c, products[b][1])
        /\ \A a \in 1..Len(products) :
              products[a][2] = c[LastAt(c, products[a][1])][2]
        /\ pc = "returned" =>
              /\ outcome = Returned(products)
              /\ {merged[a].pos : a \in 1..Len(merged)} = ItemPositions

C6_Witness ==
    /\ fn \in Aggregators /\ pc = "returned"
    /\ Len(merged) = 2 /\ merged[1].pp = R_AB /\ merged[2].pp = R_A
    /\ outcome.value = << <<"A", "x">>, <<"B", "z">> >>

\* C7 as a state property: the parameters of an iteration are the base
\* parameters plus only the fields of that iteration.
OwnFieldsOnly ==
    InIteration =>
        /\ \A k \in DOMAIN query_kwargs : k \in DOMAIN kw
        /\ Inherited("platformname")
        /\ fn = "query_tiles_dates" =>
              /\ Inherited("relativeorbitnumber")
              /\ Inherited("filename") \/ Inherited("tileid")
              /\ ParseOk(CurDate) => kw["date"][1] = Parse(CurDate)
              /\ ~ParseOk(CurDate) => kw = query_kwargs
        /\ fn = "query_dates" =>
              /\ Inherited("relativeorbitnumber")
              /\ Inherited("filename") /\ Inherited("tileid")
              /\ ParseOk(CurDate) => kw["date"][1] = Parse(CurDate)
              /\ ~ParseOk(CurDate) => kw = query_kwargs
        /\ fn = "query_rel_orbit_numbers" =>
              /\ Inherited("date")
              /\ Inherited("filename") /\ Inherited("tileid")
              /\ kw["relativeorbitnumber"] = Str(rel_orbit_numbers[di])

\* C7: no step of an aggregator changes the caller's base parameters, and
\* the parameters of every iteration are the base plus that iteration's own
\* fields only.
C7_BaseUntouched ==
    /\ [][query_kwargs' = query_kwargs]_vars
    /\ []OwnFieldsOnly

C7_Witness ==
    /\ fn = "query_tiles_dates" /\ pc = "query" /\ calls >= 1
    /\ query_kwargs = BareKwargs
    /\ Len(merged) = 1
    /\ TileFilter(Parse(tiles_dates[merged[1].pos[1]][2][merged[1].pos[2]])) = "filename"
    /\ "tileid" \in DOMAIN kw

\* C8: an error inside an aggregator iteration ends the call there: the
\* caller gets the error and no collection, no api.query call is made for a
\* later item, and the unsupported-date error comes without any call.
C8_ErrorEndsAggregator ==
    fn \in Aggregators =>
        /\ lq_pc = "raised" => (pc = "raised" /\ outcome = lq_out)
        /\ outcome.kind = "raise" <=> pc = "raised"
        /\ pc = "raised" =>
              /\ outcome.value = <<>>
              /\ \A p \in queried : p = <<ti, di>> \/ LexLess(p, <<ti, di>>)
              /\ \A a \in 1..Len(merged) : LexLess(merged[a].pos, <<ti, di>>)
              /\ outcome.err.type \in {"ValueError", "ParserError"} =>
                    <<ti, di>> \notin queried
        /\ pc # "raised" => outcome.err = NoError

C8_Witness ==
    /\ fn \in Aggregators /\ pc = "raised"
    /\ outcome.err.type = "SentinelAPIError" /\ calls = 2
    /\ Len(merged) = 1
    /\ products # <<>>

----------------------------------------------------------------------------
(* Properties of delete_empty *)

Attempted(j) == \E a \in 1..Len(removed) : removed[a].idx = j

\* C9: os.remove is attempted for exactly the inspected entries whose file
\* has size zero, never for a non-empty file; a failed removal only warns and
\* the remaining entries are still processed; a failed size read propagates
\* and stops the loop.
C9_DeletesOnlyEmpty ==
    fn = "delete_empty" =>
        /\ \A a \in 1..Len(removed) :
              /\ fs0[removed[a].path] = "empty"
              /\ removed[a].path = results[removed[a].idx]
              /\ removed[a].idx < di
        /\ \A p \in Paths : fs0[p] = "nonempty" => fs[p] = "nonempty"
        /\ \A j \in 1..(di - 1) : Attempted(j) <=> fs0[results[j]] = "empty"
        /\ warnings = Len(removed) - Cardinality({p \in Paths : fs0[p] = "empty" /\ fs[p] = "absent"})
        /\ pc = "returned" => (di = Len(results) + 1 /\ outcome = ReturnedNone)
        /\ pc = "raised" =>
              /\ outcome = Raised(Err("OSError", 0))
              /\ di <= Len(results)
              /\ fs[results[di]] = "absent"

C9_Witness ==
    /\ fn = "delete_empty" /\ pc = "returned"
    /\ Len(results) = 2
    /\ warnings = 1
    /\ Len(removed) = 1 /\ removed[1].idx = 1
    /\ fs0[results[2]] = "nonempty"

====
